---- MODULE Spec2Model ----
(***************************************************************************)
(* Model of src/main.py: the study-advisor chat backend.                   *)
(*                                                                         *)
(* The persistent state is the SQLite file chat.db: the table              *)
(* chat_sessions (one row per session, with the onboarding cursor          *)
(* question_index) and the table chat_logs (the turns).  The handlers are  *)
(* plain `def` functions, which the framework runs on worker threads, each *)
(* with its own SQLAlchemy session.  Every statement that reaches the      *)
(* database (a query, a commit, the reload of an attribute expired by a    *)
(* commit) is one step of the worker running the handler.                  *)
(*                                                                         *)
(* Strings of the program are written in ASCII: QUESTIONS[i] is "Q<i>",    *)
(* "APIエラー: 500" is "API error: 500", "AIの返答取得エラー" is           *)
(* "AI reply error", the title "セッション s" is "Session s".              *)
(***************************************************************************)
EXTENDS Integers, Sequences, FiniteSets, TLC

\* ------------------------------------------------------------------ bounds

\* /chat requests accepted in a run where requests are served one at a time
MaxChats == 8
\* /chat requests accepted in a run where two workers serve requests
MaxConcChats == 3

\* ------------------------------------------------------------------ inputs

Threads == {1, 2}
SessionIds == {"s1", "s2"}
Messages == {"m1", "m2"}

\* The /chat bodies (session_id, message) that are sent.  No handler reads the
\* text of a message: it only becomes the content of a user turn.  So the text
\* varies for one session, and is fixed where two workers serve requests.
ChatInputs(serving) ==
    IF Cardinality(serving) = 1
    THEN {<<"s1", "m1">>, <<"s1", "m2">>, <<"s2", "m1">>}
    ELSE {<<"s1", "m1">>, <<"s2", "m1">>}
Titles == {"t1"}
Replies == {"r1"}
ErrorCodes == {500}

\* ------------------------------------------------------- program constants

QUESTIONS == <<"Q0", "Q1", "Q2", "Q3", "Q4", "Q5">>

\* f"セッション {request.session_id}"
DefaultTitle(session_id) == "Session " \o session_id

\* f"APIエラー: {response.status_code}"
ApiErrorText(status_code) ==
    IF status_code = 500 THEN "API error: 500" ELSE "API error: other"

ReplyErrorText == "AI reply error"

SystemMessage == [role |-> "system", content |-> "advisor"]

\* ------------------------------------------------------------------- state

VARIABLES
    chat_sessions,  \* table chat_sessions: sequence of rows, row id = position
    chat_logs,      \* table chat_logs: sequence of rows, row id = position
    pc,             \* position of each worker thread in the handler it runs
    req,            \* the request a worker serves, with the handler's locals
    workers,        \* the worker threads that accept requests
    budget,         \* /chat requests still accepted (bounds the run)
    appended,       \* per session: the turns added with db.add, in order
    calls,          \* per session: /chat calls answered so far
    absent          \* per session: /chat calls that found no row (line 101)

vars == <<chat_sessions, chat_logs, pc, req, workers, budget, appended, calls,
          absent>>

NoApi == [status_code |-> 0, well_formed |-> FALSE, content |-> ""]

NoReq ==
    [op |-> "none", session_id |-> "", message |-> "", title |-> "",
     question_index |-> 0, messages |-> <<>>, data |-> <<>>, api |-> NoApi,
     overlapped |-> FALSE, outcome |-> "none", exc |-> "", response |-> <<>>,
     db |-> "none", found |-> FALSE, before |-> [cursor |-> 0, turns |-> 0]]

\* db = SessionLocal(): the first statement of every handler
Opened(op, session_id) ==
    [NoReq EXCEPT !.op = op, !.session_id = session_id, !.db = "open"]

\* ------------------------------------------------------- queries (helpers)

RECURSIVE SelectSeq2(_, _)
\* positions of the rows of a table whose session_id is session_id, ascending
SelectSeq2(rows, session_id) ==
    IF rows = <<>> THEN <<>>
    ELSE LET rest == SelectSeq2(SubSeq(rows, 1, Len(rows) - 1), session_id)
         IN  IF rows[Len(rows)].session_id = session_id
             THEN Append(rest, Len(rows))
             ELSE rest

\* db.query(ChatSession).filter(ChatSession.session_id == sid).first():
\* the position of the first matching row, 0 for None
FirstSession_any(rows, session_id) == IF rows = <<>> THEN 0 ELSE 1

FirstSession(rows, session_id) ==
    LET ids == SelectSeq2(rows, session_id)
    IN  IF ids = <<>> THEN 0 ELSE ids[1]

\* db.query(ChatLog).filter(ChatLog.session_id == sid).order_by(ChatLog.id.asc()).all()
\* followed by [{"role": log.role, "content": log.content} for log in ...]
History_unfiltered(logs, session_id) ==
    [i \in 1..Len(logs) |-> [role |-> logs[i].role, content |-> logs[i].content]]

History_descending(logs, session_id) ==
    LET ids == SelectSeq2(logs, session_id)
    IN  [i \in 1..Len(ids) |->
            [role |-> logs[ids[Len(ids) + 1 - i]].role,
             content |-> logs[ids[Len(ids) + 1 - i]].content]]

History(logs, session_id) ==
    LET ids == SelectSeq2(logs, session_id)
    IN  [i \in 1..Len(ids) |->
            [role |-> logs[ids[i]].role, content |-> logs[ids[i]].content]]

\* db.add(ChatLog(...)); db.commit(): the new row gets the next id
AddLog_first(logs, row) == <<row>> \o logs

AddLog(logs, row) == Append(logs, row)

\* session_id = Column(String, unique=True): the INSERT of a second row with
\* the same session_id fails with IntegrityError
UniqueViolation_off(rows, session_id) == FALSE

UniqueViolation(rows, session_id) ==
    \E i \in 1..Len(rows) : rows[i].session_id = session_id

\* session_obj.question_index < len(QUESTIONS)
Onboarding_early(question_index) == question_index < Len(QUESTIONS) - 1

Onboarding_inclusive(question_index) == question_index <= Len(QUESTIONS)

Onboarding(question_index) == question_index < Len(QUESTIONS)

\* QUESTIONS[session_obj.question_index] (Python indexes from 0)
Question_first(question_index) == QUESTIONS[1]

Question(question_index) == QUESTIONS[question_index + 1]

\* session_obj.question_index += 1
Incremented_reset(question_index) == 0

Incremented_same(question_index) == question_index

Incremented(question_index) == question_index + 1

\* data["messages"] (lines 133-137)
RequestMessages_stored(messages, message) == <<SystemMessage>> \o messages

RequestMessages(messages, message) ==
    <<SystemMessage>> \o messages
    \o <<[role |-> "user", content |-> message]>>

\* lines 143-146: the reply field of the body, or the error text when the
\* body has none
AssistantReply_error(api) == ReplyErrorText

AssistantReply(api) ==
    IF api.well_formed THEN api.content ELSE ReplyErrorText

\* response.status_code != 200
IsError_never(status_code) == FALSE

IsError(status_code) == status_code # 200

\* the JSON view of a chat_sessions row (ChatSessionResponse)
SessionResponse(rows, i) ==
    [id |-> i, session_id |-> rows[i].session_id, title |-> rows[i].title,
     question_index |-> rows[i].question_index]

\* ---------------------------------------------------------------- requests

\* Handing back a response touches nothing another worker reads before it
\* accepts its next request, so it is taken as soon as the handler has ended:
\* no other step is taken while a response waits to be handed back.
Quiet == \A u \in Threads : pc[u] # "done"

\* A request goes to the first idle worker (the workers are interchangeable);
\* where requests are served one at a time there is one worker.
CanAccept(t) ==
    /\ t \in workers
    /\ pc[t] = "idle"
    /\ Quiet
    /\ \A u \in workers : u < t => pc[u] # "idle"

\* other /chat requests for the same session that are being served
Overlapping(t, session_id) ==
    {u \in Threads \ {t} :
        pc[u] # "idle" /\ pc[u] # "done" /\ req[u].op = "chat"
        /\ req[u].session_id = session_id}

\* db.close() and the return statement after it (lines 118-119, 141-142,
\* 150-151, 158-159, 169-170, 177-178)
Returned(r, body) ==
    [r EXCEPT !.outcome = "returned", !.response = body, !.db = "closed"]

\* an exception leaves the handler: no statement after the raising one runs
Raised(r, exception) == [r EXCEPT !.outcome = "raised", !.exc = exception]

\* ----------------------------------------------------------------- /chat

\* lines 99-101 and the test of line 107 on the loaded row
ChatLookup(t, session_id, message) ==
    /\ CanAccept(t)
    /\ <<session_id, message>> \in ChatInputs(workers)
    /\ budget > 0
    /\ budget' = budget - 1
    /\ LET i == FirstSession(chat_sessions, session_id)
           others == Overlapping(t, session_id)
           r == [Opened("chat", session_id) EXCEPT
                    !.message = message,
                    !.overlapped = (others # {}),
                    !.found = (i # 0),
                    !.before =
                        [cursor |-> IF i = 0 THEN 0
                                    ELSE chat_sessions[i].question_index,
                         turns |-> Len(appended[session_id])]]
       IN  /\ req' = [u \in Threads |->
                        IF u = t
                        THEN IF i = 0 THEN r
                             ELSE [r EXCEPT !.question_index =
                                        chat_sessions[i].question_index]
                        ELSE IF u \in others
                             THEN [req[u] EXCEPT !.overlapped = TRUE]
                             ELSE req[u]]
           /\ pc' = [pc EXCEPT ![t] =
                        IF i = 0 THEN "chat_create"
                        ELSE IF Onboarding(chat_sessions[i].question_index)
                             THEN "chat_answer"
                             ELSE "chat_history"]
    /\ absent' = IF FirstSession(chat_sessions, session_id) = 0
                 THEN [absent EXCEPT ![session_id] = @ + 1]
                 ELSE absent
    /\ UNCHANGED <<chat_sessions, chat_logs, workers, appended, calls>>

\* lines 102-105 and the test of line 107 on the refreshed row (the INSERT,
\* its commit and the refresh of the new row are taken as one step)
ChatCreate(t) ==
    /\ pc[t] = "chat_create"
    /\ Quiet
    /\ IF UniqueViolation(chat_sessions, req[t].session_id)
       THEN /\ req' = [req EXCEPT ![t] = Raised(req[t], "IntegrityError")]
            /\ pc' = [pc EXCEPT ![t] = "done"]
            /\ UNCHANGED chat_sessions
       ELSE /\ chat_sessions' = Append(chat_sessions,
                    [session_id |-> req[t].session_id,
                     title |-> DefaultTitle(req[t].session_id),
                     question_index |-> 0])
            /\ req' = [req EXCEPT ![t].question_index = 0]
            /\ pc' = [pc EXCEPT ![t] =
                        IF Onboarding(0) THEN "chat_answer" ELSE "chat_history"]
    /\ UNCHANGED <<chat_logs, workers, budget, appended, calls, absent>>

\* lines 108-109
ChatAnswer(t) ==
    /\ pc[t] = "chat_answer"
    /\ Quiet
    /\ LET turn == [role |-> "user", content |-> req[t].message]
       IN  /\ chat_logs' = AddLog(chat_logs,
                    [session_id |-> req[t].session_id, role |-> turn.role,
                     content |-> turn.content])
           /\ appended' = [appended EXCEPT ![req[t].session_id] = Append(@, turn)]
    /\ pc' = [pc EXCEPT ![t] = "chat_question"]
    /\ UNCHANGED <<chat_sessions, req, workers, budget, calls, absent>>

\* lines 111-112: the commit of line 109 expired session_obj, so reading
\* question_index loads the row again
ChatQuestion(t) ==
    /\ pc[t] = "chat_question"
    /\ Quiet
    /\ LET i == FirstSession(chat_sessions, req[t].session_id)
           q == chat_sessions[i].question_index
       IN  IF q >= Len(QUESTIONS)
           THEN /\ req' = [req EXCEPT ![t] = Raised(req[t], "IndexError")]
                /\ pc' = [pc EXCEPT ![t] = "done"]
           ELSE /\ req' = [req EXCEPT ![t].response = [response |-> Question(q)],
                                      ![t].question_index = Incremented(q)]
                /\ pc' = [pc EXCEPT ![t] = "chat_advance"]
    /\ UNCHANGED <<chat_sessions, chat_logs, workers, budget, appended, calls, absent>>

\* line 113: UPDATE chat_sessions SET question_index = ? WHERE id = ?
ChatAdvance(t) ==
    /\ pc[t] = "chat_advance"
    /\ Quiet
    /\ LET i == FirstSession(chat_sessions, req[t].session_id)
       IN  chat_sessions' = [chat_sessions EXCEPT
                                ![i].question_index = req[t].question_index]
    /\ pc' = [pc EXCEPT ![t] = "chat_reply"]
    /\ UNCHANGED <<chat_logs, req, workers, budget, appended, calls, absent>>

\* lines 115-119
ChatReply(t) ==
    /\ pc[t] = "chat_reply"
    /\ Quiet
    /\ LET turn == [role |-> "assistant", content |-> req[t].response.response]
       IN  /\ chat_logs' = AddLog(chat_logs,
                    [session_id |-> req[t].session_id, role |-> turn.role,
                     content |-> turn.content])
           /\ appended' = [appended EXCEPT ![req[t].session_id] = Append(@, turn)]
    /\ req' = [req EXCEPT ![t] = Returned(req[t], req[t].response)]
    /\ pc' = [pc EXCEPT ![t] = "done"]
    /\ UNCHANGED <<chat_sessions, workers, budget, calls, absent>>

\* lines 121-122
ChatHistory(t) ==
    /\ pc[t] = "chat_history"
    /\ Quiet
    /\ req' = [req EXCEPT ![t].messages = History(chat_logs, req[t].session_id)]
    /\ pc' = [pc EXCEPT ![t] = "chat_user"]
    /\ UNCHANGED <<chat_sessions, chat_logs, workers, budget, appended, calls, absent>>

\* lines 124-125
ChatUser(t) ==
    /\ pc[t] = "chat_user"
    /\ Quiet
    /\ LET turn == [role |-> "user", content |-> req[t].message]
       IN  /\ chat_logs' = AddLog(chat_logs,
                    [session_id |-> req[t].session_id, role |-> turn.role,
                     content |-> turn.content])
           /\ appended' = [appended EXCEPT ![req[t].session_id] = Append(@, turn)]
    /\ pc' = [pc EXCEPT ![t] = "chat_call"]
    /\ UNCHANGED <<chat_sessions, req, workers, budget, calls, absent>>

\* what requests.post can give back: a status code, and a body that has
\* choices[0].message.content or has not
ApiResults ==
    {[status_code |-> c, well_formed |-> FALSE, content |-> ""] : c \in ErrorCodes}
    \cup {[status_code |-> 200, well_formed |-> FALSE, content |-> ""]}
    \cup {[status_code |-> 200, well_formed |-> TRUE, content |-> c] : c \in Replies}

\* lines 127-139: os.environ['OPENAI_API_KEY'] raises KeyError when the
\* variable is not set, requests.post raises when the connection fails
ChatCallRaises(t, exception) ==
    /\ pc[t] = "chat_call"
    /\ Quiet
    /\ req' = [req EXCEPT ![t] = Raised(req[t], exception)]
    /\ pc' = [pc EXCEPT ![t] = "done"]
    /\ UNCHANGED <<chat_sessions, chat_logs, workers, budget, appended, calls, absent>>

ChatCall(t, result) ==
    /\ pc[t] = "chat_call"
    /\ Quiet
    /\ req' = [req EXCEPT
                ![t].data = RequestMessages(req[t].messages, req[t].message),
                ![t].api = result]
    /\ pc' = [pc EXCEPT ![t] = "chat_result"]
    /\ UNCHANGED <<chat_sessions, chat_logs, workers, budget, appended, calls, absent>>

\* lines 140-151
ChatResult(t) ==
    /\ pc[t] = "chat_result"
    /\ Quiet
    /\ IF IsError(req[t].api.status_code)
       THEN /\ req' = [req EXCEPT ![t] = Returned(req[t],
                        [response |-> ApiErrorText(req[t].api.status_code)])]
            /\ UNCHANGED <<chat_logs, appended>>
       ELSE LET assistant_reply == AssistantReply(req[t].api)
                turn == [role |-> "assistant", content |-> assistant_reply]
            IN  /\ chat_logs' = AddLog(chat_logs,
                        [session_id |-> req[t].session_id, role |-> turn.role,
                         content |-> turn.content])
                /\ appended' = [appended EXCEPT
                                    ![req[t].session_id] = Append(@, turn)]
                /\ req' = [req EXCEPT ![t] = Returned(req[t],
                                [response |-> assistant_reply])]
    /\ pc' = [pc EXCEPT ![t] = "done"]
    /\ UNCHANGED <<chat_sessions, workers, budget, calls, absent>>

\* ------------------------------------------------------ the other handlers

\* lines 154-159
get_history(t, session_id) ==
    /\ CanAccept(t)
    /\ req' = [req EXCEPT ![t] = Returned(
                Opened("get_history", session_id),
                [history |-> History(chat_logs, session_id)])]
    /\ pc' = [pc EXCEPT ![t] = "done"]
    /\ UNCHANGED <<chat_sessions, chat_logs, workers, budget, appended, calls, absent>>

\* lines 162-170
create_session(t, session_id, title) ==
    /\ CanAccept(t)
    /\ LET r == [Opened("create_session", session_id) EXCEPT !.title = title]
       IN  IF UniqueViolation(chat_sessions, session_id)
           THEN /\ req' = [req EXCEPT ![t] = Raised(r, "IntegrityError")]
                /\ UNCHANGED chat_sessions
           ELSE /\ chat_sessions' = Append(chat_sessions,
                        [session_id |-> session_id, title |-> title,
                         question_index |-> 0])
                /\ req' = [req EXCEPT ![t] = Returned(r,
                                SessionResponse(chat_sessions',
                                                Len(chat_sessions')))]
    /\ pc' = [pc EXCEPT ![t] = "done"]
    /\ UNCHANGED <<chat_logs, workers, budget, appended, calls, absent>>

\* lines 173-178
get_sessions(t) ==
    /\ CanAccept(t)
    /\ req' = [req EXCEPT ![t] = Returned(
                Opened("get_sessions", ""),
                [i \in 1..Len(chat_sessions) |-> SessionResponse(chat_sessions, i)])]
    /\ pc' = [pc EXCEPT ![t] = "done"]
    /\ UNCHANGED <<chat_sessions, chat_logs, workers, budget, appended, calls, absent>>

\* the framework sends the response (or its 500 page when the handler raised)
\* and the worker is free again
Respond(t) ==
    /\ pc[t] = "done"
    /\ calls' = IF req[t].op = "chat"
                THEN [calls EXCEPT ![req[t].session_id] = @ + 1]
                ELSE calls
    /\ req' = [req EXCEPT ![t] = NoReq]
    /\ pc' = [pc EXCEPT ![t] = "idle"]
    /\ UNCHANGED <<chat_sessions, chat_logs, workers, budget, appended, absent>>

\* --------------------------------------------------------- specifications

Next ==
    \/ \E t \in Threads, s \in SessionIds, m \in Messages : ChatLookup(t, s, m)
    \/ \E t \in Threads : ChatCreate(t)
    \/ \E t \in Threads : ChatAnswer(t)
    \/ \E t \in Threads : ChatQuestion(t)
    \/ \E t \in Threads : ChatAdvance(t)
    \/ \E t \in Threads : ChatReply(t)
    \/ \E t \in Threads : ChatHistory(t)
    \/ \E t \in Threads : ChatUser(t)
    \/ \E t \in Threads, e \in {"KeyError", "ConnectionError"} : ChatCallRaises(t, e)
    \/ \E t \in Threads, r \in ApiResults : ChatCall(t, r)
    \/ \E t \in Threads : ChatResult(t)
    \/ \E t \in Threads, s \in SessionIds : get_history(t, s)
    \/ \E t \in Threads, s \in SessionIds, ti \in Titles : create_session(t, s, ti)
    \/ \E t \in Threads : get_sessions(t)
    \/ \E t \in Threads : Respond(t)

\* the database as create_all leaves a new chat.db: both tables empty
EmptyDb ==
    /\ chat_sessions = <<>>
    /\ chat_logs = <<>>
    /\ appended = [s \in SessionIds |-> <<>>]
    /\ calls = [s \in SessionIds |-> 0]
    /\ absent = [s \in SessionIds |-> 0]

Idle ==
    /\ pc = [t \in Threads |-> "idle"]
    /\ req = [t \in Threads |-> NoReq]

\* requests served one at a time
Init ==
    /\ EmptyDb
    /\ Idle
    /\ workers = {1}
    /\ budget = MaxChats

Spec == Init /\ [][Next]_vars

\* chat.db outlives the process (create_all keeps the rows of an existing
\* file): the database after k /chat calls for session_id, answered one at a
\* time, each with the same message (a state Spec reaches for every k <= 6)
OnboardedLogs(session_id, message, k) ==
    [i \in 1..(2 * k) |->
        IF i % 2 = 1
        THEN [session_id |-> session_id, role |-> "user", content |-> message]
        ELSE [session_id |-> session_id, role |-> "assistant",
              content |-> Question(i \div 2 - 1)]]

OnboardedDb(session_id, message, k) ==
    /\ chat_sessions = <<[session_id |-> session_id,
                          title |-> DefaultTitle(session_id),
                          question_index |-> k]>>
    /\ chat_logs = OnboardedLogs(session_id, message, k)
    /\ appended = [s \in SessionIds |->
                    IF s = session_id
                    THEN [i \in 1..(2 * k) |->
                            [role |-> chat_logs[i].role,
                             content |-> chat_logs[i].content]]
                    ELSE <<>>]
    /\ calls = [s \in SessionIds |-> IF s = session_id THEN k ELSE 0]
    /\ absent = [s \in SessionIds |-> IF s = session_id THEN 1 ELSE 0]

\* cursors of the session found in the database when the workers start
StartCursors == {4, 5}

\* two workers serve requests, on a new database or on one left by earlier
\* requests
ConcInit ==
    /\ \/ EmptyDb
       \/ \E k \in StartCursors : OnboardedDb("s1", "m1", k)
    /\ Idle
    /\ workers = Threads
    /\ budget = MaxConcChats

ConcSpec == ConcInit /\ [][Next]_vars

\* ------------------------------------------------------------------ claims

N == Len(QUESTIONS)

Canned == {QUESTIONS[i] : i \in 1..N}

OnboardingPcs == {"chat_answer", "chat_question", "chat_advance", "chat_reply"}

FreeFormPcs == {"chat_history", "chat_user", "chat_call", "chat_result"}

\* the rows of chat_sessions that carry session_id
RowsOf(session_id) ==
    {i \in 1..Len(chat_sessions) : chat_sessions[i].session_id = session_id}

IsPrefix(a, b) == Len(a) <= Len(b) /\ SubSeq(b, 1, Len(a)) = a

UserTurn(message) == [role |-> "user", content |-> message]

\* worker t has just ended a request of this kind
Ended(t, op) == pc[t] = "done" /\ req[t].op = op

\* C1: with requests served one at a time, the k-th /chat call of a session
\* (k <= 6, counted from the creation of the session) returns QUESTIONS[k-1],
\* whatever the messages were.
C1_QuestionsInOrder ==
    \A t \in Threads :
        (Ended(t, "chat") /\ calls[req[t].session_id] < N) =>
            /\ req[t].outcome = "returned"
            /\ req[t].response =
                    [response |-> QUESTIONS[calls[req[t].session_id] + 1]]

\* the sixth call of s1 has returned the last question, after calls with
\* different messages
C1_Witness ==
    \E t \in Threads :
        /\ Ended(t, "chat")
        /\ req[t].session_id = "s1"
        /\ calls["s1"] = N - 1
        /\ req[t].message = "m2"
        /\ appended["s1"][1].content = "m1"
        /\ req[t].response = [response |-> "Q5"]

CursorsInRange ==
    \A i \in 1..Len(chat_sessions) :
        /\ chat_sessions[i].question_index >= 0
        /\ chat_sessions[i].question_index <= N

\* C2 (as stated): every cursor is in 0..len(QUESTIONS) in every reachable
\* state, and no step makes the cursor of a session smaller.
C2_Original ==
    /\ []CursorsInRange
    /\ [][\A i \in 1..Len(chat_sessions) :
            chat_sessions'[i].question_index >= chat_sessions[i].question_index]_vars

\* C2 (amended): every cursor is in 0..len(QUESTIONS) in every reachable
\* state, and the only step that makes a cursor smaller is the cursor write
\* (line 113) of a /chat request that ran while another /chat request for the
\* same session was being served.
C2_CursorMonotoneUnlessOverlapped ==
    /\ []CursorsInRange
    /\ [][\A i \in 1..Len(chat_sessions) :
            chat_sessions'[i].question_index < chat_sessions[i].question_index =>
                \E t \in Threads :
                    /\ pc[t] = "chat_advance"
                    /\ pc'[t] = "chat_reply"
                    /\ req[t].session_id = chat_sessions[i].session_id
                    /\ req[t].overlapped]_vars

\* a request that overlapped no other has written the cursor, which is now
\* len(QUESTIONS)
C2_Witness ==
    \E t \in Threads :
        /\ pc[t] = "chat_reply"
        /\ ~req[t].overlapped
        /\ \E i \in RowsOf(req[t].session_id) :
                /\ chat_sessions[i].question_index = N
                /\ req[t].question_index = N

\* the step is the acceptance of a /chat request by worker t
Accepts(t) == pc[t] = "idle" /\ pc'[t] # "idle" /\ req'[t].op = "chat"

\* a /chat call accepted when the cursor is len(QUESTIONS) takes the
\* free-form path: it reads the history, stores the user turn and reaches the
\* completion call (lines 121-139); no step of it changes a cursor, returns a
\* canned question or stores one
FreeFormPath ==
    \A t \in Threads :
        /\ (Accepts(t) /\ \E i \in RowsOf(req'[t].session_id) :
                chat_sessions[i].question_index = N)
            => pc'[t] = "chat_history"
        /\ (pc[t] \in FreeFormPcs /\ pc'[t] # pc[t]) =>
            /\ pc[t] = "chat_history" => pc'[t] = "chat_user"
            /\ pc[t] = "chat_user" => pc'[t] = "chat_call"
            /\ pc'[t] \in FreeFormPcs \cup {"done"}
            /\ chat_sessions' = chat_sessions
            /\ \A i \in (Len(chat_logs) + 1)..Len(chat_logs') :
                    chat_logs'[i].content \notin Canned
            /\ (pc'[t] = "done" /\ req'[t].outcome = "returned") =>
                    req'[t].response.response \notin Canned

\* C3 (as stated): once the cursor of a session is len(QUESTIONS) it stays
\* there, and every /chat call accepted from then on takes the free-form path.
C3_Original ==
    [][/\ \A i \in 1..Len(chat_sessions) :
            chat_sessions[i].question_index = N =>
                chat_sessions'[i].question_index = N
       /\ FreeFormPath]_vars

\* C3 (amended): every /chat call accepted while the cursor is len(QUESTIONS)
\* takes the free-form path, and the cursor leaves len(QUESTIONS) only by the
\* cursor write (line 113) of a /chat request that ran while another /chat
\* request for the same session was being served.
C3_FreeFormUnlessOverlapped ==
    [][/\ \A i \in 1..Len(chat_sessions) :
            (chat_sessions[i].question_index = N
             /\ chat_sessions'[i].question_index # N) =>
                \E t \in Threads :
                    /\ pc[t] = "chat_advance"
                    /\ pc'[t] = "chat_reply"
                    /\ req[t].session_id = chat_sessions[i].session_id
                    /\ req[t].overlapped
       /\ FreeFormPath]_vars

\* the second free-form call of s1 has returned the reply of the completion
\* API; the cursor is still len(QUESTIONS)
C3_Witness ==
    \E t \in Threads :
        /\ Ended(t, "chat")
        /\ req[t].session_id = "s1"
        /\ calls["s1"] = N + 1
        /\ req[t].response = [response |-> "r1"]
        /\ \A i \in RowsOf("s1") : chat_sessions[i].question_index = N

\* C4: GET /history/{s} returns the turns added for s, all of them, once each,
\* none of another session, with role and content, in the order they were added.
C4_HistoryIsAppended ==
    \A t \in Threads :
        Ended(t, "get_history") =>
            /\ req[t].outcome = "returned"
            /\ req[t].response = [history |-> appended[req[t].session_id]]

\* the history of s1 was returned while turns of s2 lie between turns of s1
\* in the table, and the turns of s1 carry different messages
C4_Witness ==
    \E t \in Threads :
        /\ Ended(t, "get_history")
        /\ req[t].session_id = "s1"
        /\ Len(req[t].response.history) >= 4
        /\ req[t].response.history[1].content # req[t].response.history[3].content
        /\ \E i, j, k \in 1..Len(chat_logs) :
                /\ i < j /\ j < k
                /\ chat_logs[i].session_id = "s1"
                /\ chat_logs[j].session_id = "s2"
                /\ chat_logs[k].session_id = "s1"

\* C5: a free-form /chat call that gets a status other than 200 returns the
\* error text in an ordinary response, and the history of the session is what
\* the call read plus the user turn: no assistant turn.
C5_ErrorStatusNoAssistantTurn ==
    \A t \in Threads :
        (Ended(t, "chat") /\ req[t].api.status_code \notin {0, 200}) =>
            /\ req[t].outcome = "returned"
            /\ req[t].response =
                    [response |-> ApiErrorText(req[t].api.status_code)]
            /\ appended[req[t].session_id] =
                    Append(req[t].messages, UserTurn(req[t].message))

\* a call of a session that has answered all six questions got status 500
\* and returned the error text
C5_Witness ==
    \E t \in Threads :
        /\ Ended(t, "chat")
        /\ req[t].api.status_code = 500
        /\ req[t].response = [response |-> "API error: 500"]
        /\ Len(req[t].messages) >= 2 * N

\* C6: a free-form /chat call that gets status 200 with a body that lacks the
\* reply field returns an error text in an ordinary response and adds no
\* assistant turn: the history is what the call read plus the user turn.
C6_MalformedNoAssistantTurn ==
    \A t \in Threads :
        (Ended(t, "chat") /\ req[t].api.status_code = 200
         /\ ~req[t].api.well_formed) =>
            /\ req[t].outcome = "returned"
            /\ req[t].response = [response |-> ReplyErrorText]
            /\ appended[req[t].session_id] =
                    Append(req[t].messages, UserTurn(req[t].message))

\* C7: every call ends by returning a response body: no exception leaves a
\* handler.
C7_EveryCallReturns ==
    \A t \in Threads : pc[t] = "done" => req[t].outcome = "returned"

\* C8: no two rows of chat_sessions carry the same session_id; when
\* POST /sessions has returned, one row carries its session_id, and
\* GET /sessions lists every session_id of the table once.
C8_OneRecordPerSession ==
    /\ \A i, j \in 1..Len(chat_sessions) :
            chat_sessions[i].session_id = chat_sessions[j].session_id => i = j
    /\ \A t \in Threads :
        /\ (Ended(t, "create_session") /\ req[t].outcome = "returned") =>
                /\ Cardinality(RowsOf(req[t].session_id)) = 1
                /\ req[t].response.session_id = req[t].session_id
        /\ Ended(t, "get_sessions") =>
                /\ req[t].outcome = "returned"
                /\ \A s \in SessionIds :
                        Cardinality({i \in 1..Len(req[t].response) :
                                        req[t].response[i].session_id = s})
                            = (IF RowsOf(s) = {} THEN 0 ELSE 1)

\* GET /sessions has listed a session made by POST /sessions and one made by
\* /chat
C8_Witness ==
    \E t \in Threads :
        /\ Ended(t, "get_sessions")
        /\ Len(req[t].response) = 2
        /\ \E i, j \in 1..2 :
                /\ req[t].response[i].title = "t1"
                /\ req[t].response[j].title = DefaultTitle(req[t].response[j].session_id)

\* C9: GET /history/{s} for an s without a session row and without turns
\* returns the empty history in an ordinary response.
C9_UnknownSessionEmptyHistory ==
    \A t \in Threads :
        (/\ Ended(t, "get_history")
         /\ RowsOf(req[t].session_id) = {}
         /\ \A i \in 1..Len(chat_logs) :
                chat_logs[i].session_id # req[t].session_id) =>
            /\ req[t].outcome = "returned"
            /\ req[t].response = [history |-> <<>>]

\* the history of the unknown s2 was asked for while the table holds turns of
\* s1
C9_Witness ==
    \E t \in Threads :
        /\ Ended(t, "get_history")
        /\ req[t].session_id = "s2"
        /\ RowsOf("s2") = {}
        /\ Len(chat_logs) >= 2
        /\ req[t].response = [history |-> <<>>]

\* C10: every step leaves the table of turns, and so the history of every
\* session, a prefix of what it is after the step.
C10_AppendOnly ==
    [][/\ IsPrefix(chat_logs, chat_logs')
       /\ \A s \in SessionIds :
            IsPrefix(History(chat_logs, s), History(chat_logs', s))]_vars

\* both workers have added turns, for two sessions, and a free-form reply is
\* stored
C10_Witness ==
    /\ \E i \in 1..Len(chat_logs) : chat_logs[i].content = "r1"
    /\ \E i \in 1..Len(chat_logs) : chat_logs[i].session_id = "s2"
    /\ \E i \in 1..Len(chat_logs) : chat_logs[i].session_id = "s1"

\* the history GET /history/{s} would return now
Stored(session_id) == History(chat_logs, session_id)

\* the cursor of session_id is c: it has a row, and its rows carry c
CursorIs(session_id, c) ==
    /\ RowsOf(session_id) # {}
    /\ \A i \in RowsOf(session_id) : chat_sessions[i].question_index = c

\* the call of worker t added exactly these two turns, in this order, to the
\* turns its session had when the call was accepted
AddedTwo(t, first, second) ==
    LET h == Stored(req[t].session_id)
        k == req[t].before.turns
    IN  /\ Len(h) = k + 2
        /\ SubSeq(h, 1, k) = SubSeq(appended[req[t].session_id], 1, k)
        /\ h[k + 1] = first
        /\ h[k + 2] = second

\* C11: with requests served one at a time, a /chat call accepted while the
\* cursor is c < 6 returns QUESTIONS[c], leaves the cursor at c + 1, adds
\* user(message) then assistant(QUESTIONS[c]) and nothing else to the history,
\* and makes no request to the completion API.
C11_OnboardingCall ==
    \A t \in Threads :
        (Ended(t, "chat") /\ req[t].before.cursor < N) =>
            LET c == req[t].before.cursor
            IN  /\ req[t].outcome = "returned"
                /\ req[t].response = [response |-> QUESTIONS[c + 1]]
                /\ CursorIs(req[t].session_id, c + 1)
                /\ AddedTwo(t, UserTurn(req[t].message),
                            [role |-> "assistant", content |-> QUESTIONS[c + 1]])
                /\ req[t].data = <<>>
                /\ req[t].api = NoApi

\* the fourth call of s1, with message m2, has returned Q3
C11_Witness ==
    \E t \in Threads :
        /\ Ended(t, "chat")
        /\ req[t].session_id = "s1"
        /\ req[t].before.cursor = 3
        /\ req[t].message = "m2"
        /\ req[t].response = [response |-> "Q3"]
        /\ Len(Stored("s1")) = 8

\* C12: with requests served one at a time, a free-form /chat call that gets
\* status 200 and a body with the reply r returns r, adds user(message) then
\* assistant(r) and nothing else to the history, and leaves the cursor as it
\* was.
C12_FreeFormSuccess ==
    \A t \in Threads :
        (Ended(t, "chat") /\ req[t].api.status_code = 200
         /\ req[t].api.well_formed) =>
            /\ req[t].outcome = "returned"
            /\ req[t].response = [response |-> req[t].api.content]
            /\ AddedTwo(t, UserTurn(req[t].message),
                        [role |-> "assistant", content |-> req[t].api.content])
            /\ CursorIs(req[t].session_id, req[t].before.cursor)

\* a free-form call of s1 has returned r1
C12_Witness ==
    \E t \in Threads :
        /\ Ended(t, "chat")
        /\ req[t].session_id = "s1"
        /\ req[t].before.cursor = N
        /\ req[t].api.content = "r1"
        /\ req[t].response = [response |-> "r1"]
        /\ Len(Stored("s1")) = 2 * N + 2

\* C13: with requests served one at a time, the message list of a free-form
\* /chat call is the system instruction, then the turns the session had when
\* the call was accepted, in the order they were added, then the new user
\* message, which is in the list once: the list has two entries more than the
\* session had turns.
C13_MessageList ==
    \A t \in Threads :
        (req[t].op = "chat" /\ pc[t] \in {"chat_result", "done"}
         /\ req[t].api # NoApi) =>
            LET k == req[t].before.turns
            IN  /\ Len(req[t].data) = k + 2
                /\ req[t].data[1] = SystemMessage
                /\ SubSeq(req[t].data, 2, k + 1) =
                        SubSeq(appended[req[t].session_id], 1, k)
                /\ req[t].data[k + 2] = UserTurn(req[t].message)

\* the second free-form call of s1 has sent the twelve onboarding turns, the
\* turns of the first free-form call and its own message
C13_Witness ==
    \E t \in Threads :
        /\ pc[t] = "chat_result"
        /\ req[t].session_id = "s1"
        /\ Len(req[t].data) = 2 * N + 4
        /\ req[t].data[2 * N + 3] = [role |-> "assistant", content |-> "r1"]
        /\ req[t].data[2 * N + 4] = UserTurn(req[t].message)

\* C14 (for /chat, /history and the two /sessions handlers): when a call has
\* ended, by a return or by an exception, the connection it opened is closed.
C14_ConnectionsClosed ==
    \A t \in Threads : pc[t] = "done" => req[t].db = "closed"

\* worker t serves a /chat call on the onboarding path and has computed its
\* response and its new cursor (lines 111-112), or has returned them
HasRead(t) ==
    /\ req[t].op = "chat"
    /\ \/ pc[t] \in {"chat_advance", "chat_reply"}
       \/ pc[t] = "done" /\ req[t].outcome = "returned" /\ req[t].api = NoApi

\* worker t has also written its new cursor (line 113)
HasWritten(t) == HasRead(t) /\ pc[t] # "chat_advance"

\* C15: two /chat calls of one session that are served at the same time and
\* have read the same cursor c hold the same response, QUESTIONS[c], and once
\* both have written the cursor it is c + 1: one step further for two calls.
C15_SameCursorSameQuestion ==
    \A t, u \in Threads :
        (/\ t # u
         /\ HasRead(t) /\ HasRead(u)
         /\ req[t].session_id = req[u].session_id
         /\ req[t].question_index = req[u].question_index) =>
            LET q == req[t].question_index
            IN  /\ q \in 1..N
                /\ req[t].response = [response |-> QUESTIONS[q]]
                /\ req[u].response = req[t].response
                /\ (HasWritten(t) /\ HasWritten(u)) =>
                        CursorIs(req[t].session_id, q)

\* s1 had cursor 4; two calls served at the same time have both stored and
\* returned Q4, and the cursor is 5
C15_Witness ==
    \E t \in Threads :
        /\ Ended(t, "chat")
        /\ req[t].session_id = "s1"
        /\ req[t].overlapped
        /\ req[t].before.cursor = 4
        /\ req[t].response = [response |-> "Q4"]
        /\ calls["s1"] = 5
        /\ CursorIs("s1", 5)
        /\ Len(Stored("s1")) = 12
        /\ Cardinality({i \in 1..12 :
                Stored("s1")[i] = [role |-> "assistant", content |-> "Q4"]}) = 2

Min(a, b) == IF a < b THEN a ELSE b

\* C16: with requests served one at a time, between requests the cursor of
\* every session is min(/chat calls answered for it, 6) and is the number of
\* assistant turns of its history that carry a canned question; the first
\* 2 x cursor turns of the history are user, Q0, user, Q1, ...
C16_CursorCountsCalls ==
    (\A t \in Threads : pc[t] = "idle") =>
        \A s \in SessionIds :
            RowsOf(s) # {} =>
                LET h == Stored(s)
                    c == Min(calls[s], N)
                IN  /\ CursorIs(s, c)
                    /\ Cardinality({j \in 1..Len(h) :
                            h[j].role = "assistant" /\ h[j].content \in Canned}) = c
                    /\ Len(h) >= 2 * c
                    /\ \A j \in 1..c :
                            /\ h[2 * j - 1].role = "user"
                            /\ h[2 * j] = [role |-> "assistant",
                                           content |-> QUESTIONS[j]]

\* s1 has answered the six questions and one free-form call, s2 one question
C16_Witness ==
    /\ \A t \in Threads : pc[t] = "idle"
    /\ CursorIs("s1", N)
    /\ calls["s1"] = N + 1
    /\ CursorIs("s2", 1)
    /\ calls["s2"] = 1

\* the request a step of worker t belongs to
StepOp(t) == IF pc[t] = "idle" THEN req'[t].op ELSE req[t].op

StepSession(t) ==
    IF pc[t] = "idle" THEN req'[t].session_id ELSE req[t].session_id

SessionRows(rows, session_id) ==
    {rows[i] : i \in {j \in 1..Len(rows) : rows[j].session_id = session_id}}

\* C17: a step of a /chat call for session A leaves the rows (cursor, title)
\* and the history of every other session as they were; a step of
\* GET /history or GET /sessions leaves both tables as they were.
C17_Isolation ==
    [][\A t \in Threads :
        pc'[t] # pc[t] =>
            /\ StepOp(t) = "chat" =>
                \A b \in SessionIds \ {StepSession(t)} :
                    /\ SessionRows(chat_sessions', b) = SessionRows(chat_sessions, b)
                    /\ History(chat_logs', b) = History(chat_logs, b)
            /\ StepOp(t) \in {"get_history", "get_sessions"} =>
                /\ chat_sessions' = chat_sessions
                /\ chat_logs' = chat_logs]_vars

\* a call for s2 has ended while s1 has cursor 5 and ten turns
C17_Witness ==
    \E t \in Threads :
        /\ Ended(t, "chat")
        /\ req[t].session_id = "s2"
        /\ CursorIs("s2", 1)
        /\ CursorIs("s1", 5)
        /\ Len(Stored("s1")) = 10
        /\ Len(Stored("s2")) = 2

\* C18: when two /chat calls have found no row for a session and both have
\* ended, with no other /chat call for it, the session has one row and the
\* cursor and history that the two calls leave when one is served after the
\* other: cursor 2, history user, Q0, user, Q1.
C18_SequentialOutcome ==
    \A s \in SessionIds :
        (/\ absent[s] = 2
         /\ calls[s] = 2
         /\ \A t \in Threads :
                ~(pc[t] # "idle" /\ req[t].op = "chat" /\ req[t].session_id = s)) =>
            LET h == Stored(s)
            IN  /\ Cardinality(RowsOf(s)) = 1
                /\ CursorIs(s, 2)
                /\ Len(h) = 4
                /\ h[1].role = "user"
                /\ h[2] = [role |-> "assistant", content |-> "Q0"]
                /\ h[3].role = "user"
                /\ h[4] = [role |-> "assistant", content |-> "Q1"]

====
